---- MODULE Spec2Model ----
(***************************************************************************)
(* Model of wls_analytics/commands/log.py: the `errors` and `index` CLI    *)
(* commands, the option casts DateTimeOption / OffsetOption, and the pure  *)
(* helpers make_label_function and load_parser.                            *)
(*                                                                         *)
(* Instants and durations are integers counted in minutes.  An optional    *)
(* value (Python None) is the empty sequence, a present value v is <<v>>.  *)
(***************************************************************************)
EXTENDS Integers, Sequences, FiniteSets, TLC

VARIABLES
    cmd,            \* which command this process runs: "errors" | "index"
    pc,             \* position of the process in the command
    set_found,      \* config(f"sets.{set_name}") is not None
    fs_files,       \* what get_files finds on disk: items per server, in dict order
    raw_from, raw_to, raw_offset,   \* option values as typed on the command line
    time_from, time_to, offset,     \* locals of errors() after the casts
    soa_files,      \* result of get_files: server -> list of items, in dict order
    pos,            \* number of items the scan loop has entered so far
    reader,         \* set of file positions whose SOALogReader is open
    pending,        \* an exception raised by read_errors is propagating
    index,          \* the run's Index() accumulator
    index_file,     \* content persisted at INDEX_FILE
    prev_index,     \* content of INDEX_FILE when the process started
    index_writes,   \* number of index.write(INDEX_FILE) calls
    locator_calls,  \* number of get_files calls
    opened,         \* number of reader.open() calls that succeeded
    next_id,        \* next identifier handed out by the index accumulator
    data,           \* the final sorted list of errors()
    out,            \* lines printed to standard output
    error,          \* the exception that ended the process, if any
    id, stdout,     \* arguments of the index command
    pager,          \* number of times the pager process was run
    label, groups, label_out,       \* make_label_function: template, m.groups(), result
    parsers_def, sets, parser_out   \* load_parser: definitions, requested names, result

vars == <<cmd, pc, set_found, fs_files, raw_from, raw_to, raw_offset, time_from, time_to,
          offset, soa_files, pos, reader, pending, index, index_file, prev_index,
          index_writes, locator_calls, opened, next_id, data, out, error, id,
          stdout, pager, label, groups, label_out, parsers_def, sets, parser_out>>

scanVars == <<soa_files, pos, reader, pending, index, index_file, index_writes,
              locator_calls, opened, next_id, data>>
cliVars == <<cmd, set_found, fs_files, raw_from, raw_to, raw_offset, prev_index, id, stdout>>
winVars == <<time_from, time_to, offset>>
fnVars == <<label, groups, label_out, parsers_def, sets, parser_out>>

----------------------------------------------------------------------------
(* Bounds of the model *)
MaxServers == 2
MaxFiles == 2
MaxEntries == 3
MaxTime == 2
Today == 1
MaxTemplateLen == 3
MaxGroups == 2
MaxDefs == 2
MaxRules == 2
MaxRequest == 2
NowTod == 15

None == <<>>
Some(v) == <<v>>
Val(o) == o[1]

MinutesPerHour == 60
HoursPerDay == 24
DayMinutes == HoursPerDay * MinutesPerHour
Now == Today * DayMinutes + NowTod

RECURSIVE SeqsOfLen(_, _)
SeqsOfLen(S, n) ==
    IF n = 0 THEN {<<>>}
    ELSE {Append(s, x) : s \in SeqsOfLen(S, n - 1), x \in S}

SeqsUpTo(S, n) == UNION {SeqsOfLen(S, k) : k \in 0..n}

----------------------------------------------------------------------------
(* Command-line option casts *)

NoValue == [form |-> "none", day |-> 0, tod |-> 0]
RawFrom == [form |-> "datetime", day |-> 0, tod |-> 10]
RawTo == [form |-> "time", day |-> 0, tod |-> 20]
RawTimes == { NoValue, RawFrom, RawTo,
              [form |-> "hm", day |-> 0, tod |-> 5],
              [form |-> "bad", day |-> 0, tod |-> 0] }

\* DateTimeOption.type_cast_value: None stays None; "%Y-%m-%d %H:%M:%S" is the
\* instant itself; "%H:%M:%S" and "%H:%M" are combined with today's date;
\* anything else is rejected.
DateTimeCast(value) ==
    CASE value.form = "none"     -> [ok |-> TRUE, v |-> None]
      [] value.form = "datetime" -> [ok |-> TRUE, v |-> Some(value.day * DayMinutes + value.tod)]
      [] value.form = "time"     -> [ok |-> TRUE, v |-> Some(Today * DayMinutes + value.tod)]
      [] value.form = "hm"       -> [ok |-> TRUE, v |-> Some(Today * DayMinutes + value.tod)]
      [] OTHER                   -> [ok |-> FALSE, v |-> None]

\* An offset as typed: `int` says whether value[:-1] parses as an integer n,
\* unit is value[-1].
NoOffset == [given |-> FALSE, int |-> TRUE, n |-> 0, unit |-> "h"]
RawOffsets == { NoOffset,
                [given |-> TRUE, int |-> TRUE,  n |-> 1,  unit |-> "s"],
                [given |-> TRUE, int |-> FALSE, n |-> 0,  unit |-> "h"],
                [given |-> TRUE, int |-> TRUE,  n |-> -1, unit |-> "h"],
                [given |-> TRUE, int |-> TRUE,  n |-> 1,  unit |-> "d"],
                [given |-> TRUE, int |-> TRUE,  n |-> 10, unit |-> "m"] }

offset_units == [h |-> MinutesPerHour, d |-> DayMinutes, m |-> 1]

\* OffsetOption.type_cast_value
OffsetCast(value) ==
    IF ~value.given THEN [ok |-> TRUE, v |-> None]
    ELSE IF value.unit \in DOMAIN offset_units /\ value.int
         THEN [ok |-> TRUE, v |-> Some(value.n * offset_units[value.unit])]
         ELSE [ok |-> FALSE, v |-> None]

----------------------------------------------------------------------------
(* Collaborators: the index accumulator and the persisted index *)

OldRecord == [id |-> 0, file |-> <<0, 0>>]

\* Index.add as called by the reader: one record per emitted entry
IndexAdd(idx, rid, file) == idx \cup {[id |-> rid, file |-> file]}

\* Index.search: (filename, item), filename None when the id is absent
IndexSearch(idx, rid) ==
    IF \E r \in idx : r.id = rid
    THEN Some((CHOOSE r \in idx : r.id = rid).file)
    ELSE None

----------------------------------------------------------------------------
(* The scan of errors() *)

RECURSIVE Sum(_)
Sum(s) == IF s = <<>> THEN 0 ELSE Sum(SubSeq(s, 1, Len(s) - 1)) + s[Len(s)]

\* A result of get_files: per server (dict order) the number of its items
Mappings == {m \in SeqsUpTo(0..MaxFiles, MaxServers) : Sum(m) <= MaxFiles}

MakeFiles(counts) ==
    [s \in 1..Len(counts) |->
        [server |-> s,
         items |-> [i \in 1..counts[s] |-> [file |-> <<s, i>>, data |-> <<>>]]]]

\* for server, items in soa_files.items(): for item in items
RECURSIVE Positions(_)
Positions(files) ==
    IF files = <<>> THEN <<>>
    ELSE LET n == Len(files)
         IN Positions(SubSeq(files, 1, n - 1)) \o [i \in 1..Len(files[n].items) |-> <<n, i>>]

\* data.extend(item["data"]) over the same iteration
RECURSIVE ConcatItems(_)
ConcatItems(items) ==
    IF items = <<>> THEN <<>>
    ELSE ConcatItems(SubSeq(items, 1, Len(items) - 1)) \o items[Len(items)].data

RECURSIVE Flatten(_)
Flatten(files) ==
    IF files = <<>> THEN <<>>
    ELSE Flatten(SubSeq(files, 1, Len(files) - 1)) \o ConcatItems(files[Len(files)].items)

\* sorted(data, key=lambda x: x["time"]): a stable sort
\* an insertion that puts an entry before the entries of equal time
RECURSIVE InsertByTime_BeforeEqual(_, _)
InsertByTime_BeforeEqual(s, e) ==
    IF s = <<>> THEN <<e>>
    ELSE IF s[Len(s)].time < e.time THEN Append(s, e)
         ELSE Append(InsertByTime_BeforeEqual(SubSeq(s, 1, Len(s) - 1), e), s[Len(s)])

RECURSIVE InsertByTime(_, _)
InsertByTime(s, e) ==
    IF s = <<>> THEN <<e>>
    ELSE IF s[Len(s)].time <= e.time THEN Append(s, e)
         ELSE Append(InsertByTime(SubSeq(s, 1, Len(s) - 1), e), s[Len(s)])

RECURSIVE SortedByTime(_)
SortedByTime(s) ==
    IF s = <<>> THEN <<>>
    ELSE InsertByTime(SortedByTime(SubSeq(s, 1, Len(s) - 1)), s[Len(s)])

Cur == Positions(soa_files)[pos]

----------------------------------------------------------------------------
(* make_label_function *)

\* A label template is a sequence of fields: literal text, an automatically
\* numbered placeholder "{}", an indexed placeholder "{i}", or markup that
\* str.format rejects (an unmatched brace, a named field).
Lit == [k |-> "lit", i |-> 0]
Auto == [k |-> "auto", i |-> 0]
Bad == [k |-> "bad", i |-> 0]
Idx(n) == [k |-> "idx", i |-> n]
Fields == {Lit, Auto, Bad} \cup {Idx(n) : n \in 0..(MaxGroups + 1)}
Templates == SeqsUpTo(Fields, MaxTemplateLen)
GroupValues == {"a", "b"}
Raised == [ok |-> FALSE, s |-> ""]

\* str.format(*args) from field k on; auto is the automatic counter, mode says
\* which numbering the fields seen so far use.  An exception anywhere fails
\* the whole call.
RECURSIVE FormatFrom(_, _, _, _, _)
FormatFrom(t, args, k, auto, mode) ==
    IF k > Len(t) THEN [ok |-> TRUE, s |-> ""]
    ELSE LET f == t[k]
             n == IF f.k = "auto" THEN auto ELSE f.i
             rest == FormatFrom(t, args, k + 1,
                                IF f.k = "auto" THEN auto + 1 ELSE auto,
                                IF f.k = "auto" THEN "auto"
                                ELSE IF f.k = "idx" THEN "manual" ELSE mode)
         IN CASE f.k = "bad" -> Raised
              [] f.k = "lit" -> IF rest.ok THEN [ok |-> TRUE, s |-> "x" \o rest.s] ELSE Raised
              [] f.k = "auto" /\ mode = "manual" -> Raised
              [] f.k = "idx" /\ mode = "auto" -> Raised
              [] OTHER -> IF n + 1 > Len(args) THEN Raised
                          ELSE IF rest.ok THEN [ok |-> TRUE, s |-> args[n + 1] \o rest.s]
                          ELSE Raised

Format(t, args) == FormatFrom(t, args, 1, 0, "none")

\* _x without its try/except
label_function_NoCatch(lbl, m) ==
    LET r == Format(lbl, <<"">> \o m)
    IN IF r.ok THEN [raised |-> FALSE, value |-> r.s]
       ELSE [raised |-> TRUE, value |-> ""]

\* label_function(m) of make_label_function(label); m is given by m.groups()
label_function(lbl, m) ==
    LET r == Format(lbl, <<"">> \o m)
    IN IF r.ok THEN [raised |-> FALSE, value |-> r.s]
       ELSE [raised |-> FALSE, value |-> "__internal_error__"]

\* the closure make_label_function returns, bound to its template
make_label_function(lbl) == [closure |-> "label_function", label |-> lbl]

----------------------------------------------------------------------------
(* load_parser *)

Names == {"A", "B", "C"}
OwnerNames == {"A", "B"}
Rules == { [pattern |-> "p1", label |-> <<Idx(1)>>],
           [pattern |-> "p2", label |-> <<Auto, Auto>>] }
ParserDefs == [sets : SUBSET OwnerNames, rules : SeqsUpTo(Rules, MaxRules)]

RECURSIVE RuleCount(_)
RuleCount(defs) ==
    IF defs = <<>> THEN 0
    ELSE RuleCount(SubSeq(defs, 1, Len(defs) - 1)) + Len(defs[Len(defs)].rules)

\* at most MaxDefs definitions holding at most MaxRules rules in all
RECURSIVE DefsOfLen(_)
DefsOfLen(n) ==
    IF n = 0 THEN {<<>>}
    ELSE UNION {{Append(s, d) : d \in {e \in ParserDefs :
                                         RuleCount(s) + Len(e.rules) <= MaxRules}} :
                s \in DefsOfLen(n - 1)}
ParserInputs == UNION {DefsOfLen(k) : k \in 0..MaxDefs}
Requests == SeqsUpTo(Names, MaxRequest)

\* all(...) where the code says any(...)
IsActive_All(parser_def, req) == \A k \in 1..Len(req) : req[k] \in parser_def.sets

\* any(item in parser_def["sets"] for item in sets)
IsActive(parser_def, req) == \E k \in 1..Len(req) : req[k] \in parser_def.sets

\* the inner loop: one entry per rule
CompileRules(rules) ==
    [r \in 1..Len(rules) |->
        [pattern |-> rules[r].pattern, label |-> make_label_function(rules[r].label)]]

RECURSIVE load_parser(_, _)
load_parser(defs, req) ==
    IF defs = <<>> THEN <<>>
    ELSE LET n == Len(defs)
             before == load_parser(SubSeq(defs, 1, n - 1), req)
         IN IF IsActive(defs[n], req) THEN before \o CompileRules(defs[n].rules)
            ELSE before

----------------------------------------------------------------------------
InitFn ==
    /\ label = <<>> /\ groups = <<>> /\ label_out = None
    /\ parsers_def = <<>> /\ sets = <<>> /\ parser_out = None

InitRun ==
    /\ time_from = None /\ time_to = None /\ offset = None
    /\ soa_files = <<>> /\ pos = 0 /\ reader = {} /\ pending = FALSE
    /\ index = {} /\ index_writes = 0 /\ locator_calls = 0 /\ opened = 0
    /\ next_id = 1 /\ data = <<>> /\ out = <<>> /\ error = None /\ pager = 0
    /\ prev_index \in {{}, {OldRecord}}
    /\ index_file = prev_index

InitIndexCmd ==
    /\ cmd = "index"
    /\ set_found = TRUE /\ fs_files = <<>>
    /\ raw_from = NoValue /\ raw_to = NoValue /\ raw_offset = NoOffset
    /\ id \in 0..1 /\ stdout \in BOOLEAN

InitErrorsCmd(froms, tos, offsets, mappings) ==
    /\ cmd = "errors"
    /\ set_found \in BOOLEAN
    /\ fs_files \in mappings
    /\ raw_from \in froms /\ raw_to \in tos /\ raw_offset \in offsets
    /\ id = 0 /\ stdout = FALSE

\* every bounded file mapping, under a few command lines
Init ==
    /\ pc = "cli"
    /\ InitRun
    /\ InitFn
    /\ \/ InitErrorsCmd({NoValue, RawFrom}, {NoValue, RawTo}, {NoOffset}, Mappings)
       \/ InitIndexCmd

\* every command line, over at most one file
InitWindow ==
    /\ pc = "cli"
    /\ InitRun
    /\ InitFn
    /\ \/ InitErrorsCmd(RawTimes, RawTimes, RawOffsets, {<<>>, <<1>>})
       \/ InitIndexCmd

Fail(e) == pc' = "failed" /\ error' = Some(e)

\* click casts the options before the command body runs
ParseOptions ==
    /\ cmd = "errors" /\ pc = "cli"
    /\ LET f == DateTimeCast(raw_from)
           t == DateTimeCast(raw_to)
           o == OffsetCast(raw_offset)
       IN IF f.ok /\ t.ok /\ o.ok
          THEN /\ time_from' = f.v /\ time_to' = t.v /\ offset' = o.v
               /\ pc' = "errors" /\ UNCHANGED error
          ELSE /\ Fail("BadParameter") /\ UNCHANGED winVars
    /\ UNCHANGED <<cliVars, scanVars, out, pager, fnVars>>

\* errors() without the check that one of --from, --to is given
ResolveWindow_NoCheck ==
    /\ cmd = "errors" /\ pc = "errors"
    /\ IF ~set_found
       THEN Fail("ConfigurationError") /\ UNCHANGED <<winVars, out>>
       ELSE LET to2 == IF time_to = None THEN Some(Now) ELSE time_to
                from2 == IF time_from = None /\ offset # None
                         THEN Some(Val(to2) - Val(offset)) ELSE time_from
            IN /\ time_to' = to2 /\ time_from' = from2
               /\ out' = out \o <<"-- Time range", "-- Searching files">>
               /\ pc' = "get_files"
               /\ UNCHANGED <<offset, error>>
    /\ UNCHANGED <<cliVars, scanVars, pager, fnVars>>

\* errors(), up to the call of get_files
ResolveWindow ==
    /\ cmd = "errors" /\ pc = "errors"
    /\ IF ~set_found
       THEN Fail("ConfigurationError") /\ UNCHANGED <<winVars, out>>
       ELSE IF time_from = None /\ time_to = None
       THEN Fail("InvalidArguments") /\ UNCHANGED <<winVars, out>>
       ELSE LET to2 == IF time_to = None THEN Some(Now) ELSE time_to
                from2 == IF time_from = None /\ offset # None
                         THEN Some(Val(to2) - Val(offset)) ELSE time_from
            IN /\ time_to' = to2 /\ time_from' = from2
               /\ out' = out \o <<"-- Time range", "-- Searching files">>
               /\ pc' = "get_files"
               /\ UNCHANGED <<offset, error>>
    /\ UNCHANGED <<cliVars, scanVars, pager, fnVars>>

\* get_files without the return on an empty mapping
GetFiles_NoEmptyCheck ==
    /\ cmd = "errors" /\ pc = "get_files"
    /\ soa_files' = MakeFiles(fs_files)
    /\ locator_calls' = locator_calls + 1
    /\ out' = out
    /\ pc' = "loop"
    /\ index' = {}
    /\ UNCHANGED <<cliVars, winVars, pos, reader, pending, index_file, index_writes,
                   opened, next_id, data, error, pager, fnVars>>

\* get_files, the empty check, the progress meter, load_parser and Index()
GetFiles ==
    /\ cmd = "errors" /\ pc = "get_files"
    /\ soa_files' = MakeFiles(fs_files)
    /\ locator_calls' = locator_calls + 1
    /\ IF Len(soa_files') = 0
       THEN /\ out' = Append(out, "-- No files found.")
            /\ pc' = "done"
       ELSE /\ out' = out
            /\ pc' = "loop"
    /\ index' = {}
    /\ UNCHANGED <<cliVars, winVars, pos, reader, pending, index_file, index_writes,
                   opened, next_id, data, error, pager, fnVars>>

\* _read_entries: SOALogReader(item["file"]); reader.open()
OpenReader ==
    /\ cmd = "errors" /\ pc = "loop"
    /\ pos < Len(Positions(soa_files))
    /\ pos' = pos + 1
    /\ \/ /\ reader' = reader \cup {Positions(soa_files)[pos + 1]}
          /\ opened' = opened + 1
          /\ pc' = "reading" /\ UNCHANGED error
       \/ /\ Fail("ReadFailure")
          /\ UNCHANGED <<reader, opened>>
    /\ UNCHANGED <<cliVars, winVars, soa_files, pending, index, index_file, index_writes,
                   locator_calls, next_id, data, out, pager, fnVars>>

\* one iteration of the for loop over reader.read_errors(...)
ReadEntry ==
    /\ cmd = "errors" /\ pc = "reading"
    /\ next_id <= MaxEntries
    /\ \E t \in 1..MaxTime :
         LET s == Cur[1]
             i == Cur[2]
             file == soa_files[s].items[i].file
             d == [time |-> t, index |-> next_id, file |-> file, server |-> soa_files[s].server]
         IN /\ index' = IndexAdd(index, next_id, file)
            /\ soa_files' = [soa_files EXCEPT ![s].items[i].data = Append(@, d)]
    /\ next_id' = next_id + 1
    /\ UNCHANGED <<cliVars, winVars, pc, pos, reader, pending, index_file, index_writes,
                   locator_calls, opened, data, out, error, pager, fnVars>>

\* read_errors raises
ReadRaise ==
    /\ cmd = "errors" /\ pc = "reading"
    /\ pending' = TRUE
    /\ pc' = "closing"
    /\ UNCHANGED <<cliVars, winVars, soa_files, pos, reader, index, index_file,
                   index_writes, locator_calls, opened, next_id, data, out, error,
                   pager, fnVars>>

\* read_errors is exhausted
ReadEnd ==
    /\ cmd = "errors" /\ pc = "reading"
    /\ pc' = "closing"
    /\ UNCHANGED <<cliVars, winVars, scanVars, out, error, pager, fnVars>>

\* reader.close() after the loop instead of in a finally clause
CloseReader_NoFinally ==
    /\ cmd = "errors" /\ pc = "closing"
    /\ reader' = IF pending THEN reader ELSE reader \ {Cur}
    /\ IF pending THEN Fail("ReadFailure") ELSE pc' = "loop" /\ UNCHANGED error
    /\ UNCHANGED <<cliVars, winVars, soa_files, pos, pending, index, index_file,
                   index_writes, locator_calls, opened, next_id, data, out, pager,
                   fnVars>>

\* index.write(INDEX_FILE) inside the loop, after each span
CloseReader_WriteEach ==
    /\ cmd = "errors" /\ pc = "closing"
    /\ reader' = reader \ {Cur}
    /\ IF pending
       THEN Fail("ReadFailure") /\ UNCHANGED <<index_file, index_writes>>
       ELSE /\ pc' = "loop" /\ UNCHANGED error
            /\ index_file' = index /\ index_writes' = index_writes + 1
    /\ UNCHANGED <<cliVars, winVars, soa_files, pos, pending, index,
                   locator_calls, opened, next_id, data, out, pager, fnVars>>

\* finally: reader.close(); a pending exception then leaves errors()
CloseReader ==
    /\ cmd = "errors" /\ pc = "closing"
    /\ reader' = reader \ {Cur}
    /\ IF pending THEN Fail("ReadFailure") ELSE pc' = "loop" /\ UNCHANGED error
    /\ UNCHANGED <<cliVars, winVars, soa_files, pos, pending, index, index_file,
                   index_writes, locator_calls, opened, next_id, data, out, pager,
                   fnVars>>

\* the loop ends without index.write(INDEX_FILE)
WriteIndex_Missing ==
    /\ cmd = "errors" /\ pc = "loop"
    /\ pos = Len(Positions(soa_files))
    /\ pc' = "collect"
    /\ UNCHANGED <<cliVars, winVars, scanVars, out, error, pager, fnVars>>

\* index.write(INDEX_FILE) after the loops
WriteIndex ==
    /\ cmd = "errors" /\ pc = "loop"
    /\ pos = Len(Positions(soa_files))
    /\ index_file' = index
    /\ index_writes' = index_writes + 1
    /\ pc' = "collect"
    /\ UNCHANGED <<cliVars, winVars, soa_files, pos, reader, pending, index,
                   locator_calls, opened, next_id, data, out, error, pager, fnVars>>

\* flatten, sort and report
Collect ==
    /\ cmd = "errors" /\ pc = "collect"
    /\ data' = SortedByTime(Flatten(soa_files))
    /\ out' = IF Len(data') = 0
              THEN Append(out, "-- No errors found.")
              ELSE out \o <<"-- Completed", "table", "-- Errors">>
    /\ pc' = "done"
    /\ UNCHANGED <<cliVars, winVars, soa_files, pos, reader, pending, index, index_file,
                   index_writes, locator_calls, opened, next_id, error, pager, fnVars>>

\* the index command without the return after "not found"
IndexLookup_NoReturn ==
    /\ cmd = "index" /\ pc = "cli"
    /\ LET filename == IndexSearch(index_file, id)
       IN IF ~stdout
          THEN /\ pager' = pager + 1
               /\ out' = IF filename = None
                         THEN Append(out, "Index entry not found.") ELSE out
          ELSE /\ out' = Append(out, IF filename = None
                                     THEN "Index entry not found." ELSE "log_file")
               /\ pager' = pager
    /\ pc' = "done"
    /\ UNCHANGED <<cliVars, winVars, scanVars, error, fnVars>>

\* the index command
IndexLookup ==
    /\ cmd = "index" /\ pc = "cli"
    /\ LET filename == IndexSearch(index_file, id)
       IN IF filename = None
          THEN /\ out' = Append(out, "Index entry not found.")
               /\ pager' = pager
          ELSE IF ~stdout
               THEN /\ pager' = pager + 1
                    /\ out' = out
               ELSE /\ out' = Append(out, "log_file")
                    /\ pager' = pager
    /\ pc' = "done"
    /\ UNCHANGED <<cliVars, winVars, scanVars, error, fnVars>>

Next ==
    \/ ParseOptions
    \/ ResolveWindow
    \/ GetFiles
    \/ OpenReader
    \/ ReadEntry
    \/ ReadRaise
    \/ ReadEnd
    \/ CloseReader
    \/ WriteIndex
    \/ Collect
    \/ IndexLookup

Spec == Init /\ [][Next]_vars
SpecWindow == InitWindow /\ [][Next]_vars

----------------------------------------------------------------------------
(* Properties of the errors and index commands *)

IsSortedByTime(s) == \A i, j \in 1..Len(s) : i < j => s[i].time <= s[j].time

\* s is t rearranged, entries of equal time keeping the order they have in t
IsStablePermutation(s, t) ==
    /\ Len(s) = Len(t)
    /\ \E f \in [1..Len(s) -> 1..Len(t)] :
         /\ \A i, j \in 1..Len(s) : i # j => f[i] # f[j]
         /\ \A i \in 1..Len(s) : s[i] = t[f[i]]
         /\ \A i, j \in 1..Len(s) : (i < j /\ s[i].time = s[j].time) => f[i] < f[j]

Emitted == {Flatten(soa_files)[k] : k \in 1..Len(Flatten(soa_files))}
ErrorsDone == cmd = "errors" /\ pc = "done"
Scanned == ErrorsDone /\ Len(soa_files) > 0

\* C1: when errors() has produced its final list, the list is sorted by time
\* ascending and is a stable permutation of the per-file lists concatenated in
\* discovery order (server order, then span order).
C1_SortedStablePermutation ==
    Scanned => /\ IsSortedByTime(data)
               /\ IsStablePermutation(data, Flatten(soa_files))

\* three entries from two servers, with a tie in time and an inversion
C1_Witness ==
    /\ Scanned
    /\ Len(data) >= 2
    /\ \E i, j \in 1..Len(data) :
         /\ i < j /\ data[i].time = data[j].time /\ data[i].server # data[j].server
    /\ data # Flatten(soa_files)

\* C2: when errors() returns normally, every index id carried by an emitted
\* entry has its record in the persisted index file, which holds exactly what
\* the run's accumulator received; also on the "no errors found" path.
C2_EmittedIdsPersisted ==
    ErrorsDone =>
        /\ \A e \in Emitted : \E r \in index_file : r.id = e.index /\ r.file = e.file
        /\ Len(soa_files) > 0 => index_file = index /\ index_writes = 1

C2_Witness ==
    /\ ErrorsDone /\ Emitted # {} /\ prev_index # {}
    /\ \A e \in Emitted : \E r \in index_file : r.id = e.index

\* C3: the index file is written at most once, only after the loop has passed
\* every span with no reader open; a raised read aborts the run with the index
\* file as it was before the run.
C3_IndexWrittenOnceAfterFullScan ==
    /\ index_writes <= 1
    /\ index_writes = 1 =>
          /\ pos = Len(Positions(soa_files))
          /\ pc \in {"collect", "done"}
          /\ reader = {} /\ ~pending
    /\ pending => pc \in {"closing", "failed"} /\ index_writes = 0
    /\ pc = "failed" => index_writes = 0 /\ index_file = prev_index
    /\ index_writes = 0 => index_file = prev_index

\* a read raised after an entry was accumulated, before the last span
C3_Witness ==
    /\ pc = "failed" /\ pending /\ index # {}
    /\ pos < Len(Positions(soa_files))
    /\ index_file = prev_index /\ prev_index # {}

\* C4: an empty get_files result makes errors() print "No files found." and
\* return normally, with no reader opened and no index write.
C4_NoFilesFound ==
    (cmd = "errors" /\ locator_calls > 0 /\ Len(soa_files) = 0) =>
        /\ pc = "done" /\ error = None
        /\ out[Len(out)] = "-- No files found."
        /\ opened = 0 /\ reader = {}
        /\ index_writes = 0 /\ index_file = prev_index

C4_Witness ==
    /\ cmd = "errors" /\ locator_calls = 1 /\ Len(soa_files) = 0
    /\ pc = "done" /\ prev_index # {} /\ index_file = prev_index

\* C6: with neither --from nor --to on the command line the run fails before
\* get_files is called, a reader opened or the index written; when the
\* options are accepted and the log set exists the failure is the missing
\* time bounds one ("Either --from or --to must be specified.").
C6_MissingBoundsFailFirst ==
    (cmd = "errors" /\ raw_from = NoValue /\ raw_to = NoValue) =>
        /\ pc \in {"cli", "errors", "failed"}
        /\ locator_calls = 0 /\ opened = 0 /\ index_writes = 0
        /\ index_file = prev_index
        /\ pc = "failed" =>
              error = IF ~OffsetCast(raw_offset).ok THEN Some("BadParameter")
                      ELSE IF ~set_found THEN Some("ConfigurationError")
                      ELSE Some("InvalidArguments")

C6_Witness ==
    /\ cmd = "errors" /\ raw_from = NoValue /\ raw_to = NoValue
    /\ raw_offset.given /\ offset # None
    /\ pc = "failed" /\ error = Some("InvalidArguments")

\* C7: whenever get_files has been called, the window has both ends set and
\* start <= end.
C7_WindowBounded ==
    (cmd = "errors" /\ locator_calls > 0) =>
        /\ time_from # None /\ time_to # None
        /\ Val(time_from) <= Val(time_to)

\* C9: the index command never changes the index file; for an absent id it
\* prints "not found", ends normally and runs no pager; the pager runs only
\* for a present id without --stdout.
C9_LookupReadOnly ==
    cmd = "index" =>
        /\ index_file = prev_index /\ index_writes = 0
        /\ error = None /\ pc \in {"cli", "done"}
        /\ pager > 0 => IndexSearch(prev_index, id) # None /\ ~stdout
        /\ (pc = "done" /\ IndexSearch(prev_index, id) = None) =>
              out = <<"Index entry not found.">> /\ pager = 0

C9_Witness ==
    /\ cmd = "index" /\ pc = "done" /\ prev_index # {}
    /\ IndexSearch(prev_index, id) = None /\ ~stdout
    /\ out = <<"Index entry not found.">>

\* C10: at most one reader is open, it is the reader of the span the loop is
\* in, and none is open between spans or once the run has ended, also when a
\* read raised.
C10_ReaderClosed ==
    /\ Cardinality(reader) <= 1
    /\ reader # {} => pc \in {"reading", "closing"} /\ reader = {Cur}
    /\ pc \in {"reading", "closing"} => reader = {Cur}
    /\ opened <= pos

C10_Witness ==
    /\ pc = "failed" /\ pending /\ opened >= 2 /\ reader = {}

----------------------------------------------------------------------------
(* The pure helpers, applied to inputs drawn by Init *)

InitNoCmd ==
    /\ cmd = "none" /\ pc = "call"
    /\ set_found = TRUE /\ fs_files = <<>>
    /\ raw_from = NoValue /\ raw_to = NoValue /\ raw_offset = NoOffset
    /\ id = 0 /\ stdout = FALSE

InitLabel ==
    /\ InitNoCmd /\ InitRun
    /\ label \in Templates
    /\ groups \in SeqsUpTo(GroupValues, MaxGroups)
    /\ label_out = None
    /\ parsers_def = <<>> /\ sets = <<>> /\ parser_out = None

\* f = make_label_function(label); f(m)
ApplyLabel ==
    /\ cmd = "none" /\ pc = "call"
    /\ label_out' = Some(label_function(make_label_function(label).label, groups))
    /\ pc' = "returned"
    /\ UNCHANGED <<cliVars, winVars, scanVars, out, error, pager, label, groups,
                   parsers_def, sets, parser_out>>

NextLabel == ApplyLabel
SpecLabel == InitLabel /\ [][NextLabel]_vars

InitParser ==
    /\ InitNoCmd /\ InitRun
    /\ parsers_def \in ParserInputs
    /\ sets \in Requests
    /\ parser_out = None
    /\ label = <<>> /\ groups = <<>> /\ label_out = None

\* load_parser(parsers_def, sets)
ApplyLoadParser ==
    /\ cmd = "none" /\ pc = "call"
    /\ parser_out' = Some(load_parser(parsers_def, sets))
    /\ pc' = "returned"
    /\ UNCHANGED <<cliVars, winVars, scanVars, out, error, pager, label, groups,
                   label_out, parsers_def, sets>>

NextParser == ApplyLoadParser
SpecParser == InitParser /\ [][NextParser]_vars

----------------------------------------------------------------------------
(* Properties of the pure helpers *)

PlaceholderPositions(t) == {k \in 1..Len(t) : t[k].k \in {"auto", "idx"}}
PlaceholderCount(t) == Cardinality(PlaceholderPositions(t))

\* the argument a placeholder asks for: its own index, or for "{}" the number
\* of "{}" before it; argument 0 is the empty string, argument n is group n
ArgIndex(t, k) ==
    IF t[k].k = "idx" THEN t[k].i
    ELSE Cardinality({j \in 1..(k - 1) : t[j].k = "auto"})

Sentinel == [raised |-> FALSE, value |-> "__internal_error__"]

\* C5 as stated: more placeholders than captured groups gives the sentinel
\* label, and the call does not raise.
C5_CountExceedsGroups ==
    (label_out # None /\ PlaceholderCount(label) > Len(groups)) =>
        Val(label_out) = Sentinel

\* C5 as amended: a placeholder asking for an argument beyond the last
\* captured group gives the sentinel label; and no template makes the label
\* function raise.
C5_IndexExceedsGroups ==
    label_out # None =>
        /\ ~Val(label_out).raised
        /\ (\E k \in PlaceholderPositions(label) : ArgIndex(label, k) > Len(groups))
              => Val(label_out) = Sentinel

C5_Witness ==
    /\ label_out # None /\ Len(groups) = 1
    /\ label = <<Idx(1), Lit, Idx(2)>>
    /\ Val(label_out) = Sentinel

ActivePositions ==
    {p \in (1..Len(parsers_def)) \X (1..MaxRules) :
        /\ p[2] <= Len(parsers_def[p[1]].rules)
        /\ parsers_def[p[1]].sets \cap {sets[k] : k \in 1..Len(sets)} # {}}

Before(q, p) == q[1] < p[1] \/ (q[1] = p[1] /\ q[2] < p[2])

\* C8: the list load_parser returns has one entry per rule of the definitions
\* whose owning sets meet the requested names, in definition order and rule
\* order within a definition, each carrying the rule's pattern and the label
\* function of the rule's template.
C8_RuleSelection ==
    parser_out # None =>
        /\ Len(Val(parser_out)) = Cardinality(ActivePositions)
        /\ \A p \in ActivePositions :
             LET k == 1 + Cardinality({q \in ActivePositions : Before(q, p)})
                 rule == parsers_def[p[1]].rules[p[2]]
             IN /\ Val(parser_out)[k].pattern = rule.pattern
                /\ Val(parser_out)[k].label = make_label_function(rule.label)

\* request [A, B]: a definition owned by {A} is active, and so are two
\* definitions in order
C8_Witness ==
    /\ parser_out # None
    /\ sets = <<"A", "B">>
    /\ Len(parsers_def) = 2
    /\ parsers_def[1].sets = {"A"} /\ parsers_def[2].sets = {"B"}
    /\ Len(Val(parser_out)) = 2
    /\ Val(parser_out)[1] # Val(parser_out)[2]

\* request [C]: a definition owned by {A} is inactive
C8_WitnessInactive ==
    /\ parser_out # None /\ sets = <<"C">>
    /\ Len(parsers_def) = 1 /\ parsers_def[1].sets = {"A"}
    /\ parsers_def[1].rules # <<>> /\ Val(parser_out) = <<>>

TypeOK == pc \in {"call", "returned", "cli", "errors", "get_files", "loop", "reading", "closing", "collect", "done", "failed"}
====
